---------------------------- MODULE Spec2Model ----------------------------
(***************************************************************************)
(* Request/response lifecycle of the image stylizer: the App component     *)
(* (src/App.tsx) and the generation client (src/services/geminiService.ts).*)
(*                                                                         *)
(* JavaScript strings are modelled as sequences of text fragments, so that *)
(* template strings (concatenation) and split(',') are computed.  The      *)
(* empty sequence stands for null, undefined and "": the code tests these  *)
(* values only for truthiness.                                             *)
(***************************************************************************)
EXTENDS Integers, Sequences, FiniteSets, TLC

VARIABLES originalImageFile, originalImageUrl, editedImageUrl, prompt,
          isLoading, error, apiKey, calls, nextCall, objectUrls,
          requestCount, downloads

vars == <<originalImageFile, originalImageUrl, editedImageUrl, prompt,
          isLoading, error, apiKey, calls, nextCall, objectUrls,
          requestCount, downloads>>

(* ------------------------------- bounds -------------------------------- *)

\* number of handleGenerate invocations that start a client call
MaxCalls == 2
\* number of object URLs created by handleImageUpload
MaxUploads == 2
\* number of exports recorded
MaxDownloads == 1
\* number of content parts in a backend response
MaxParts == 2

(* ------------------------------- values -------------------------------- *)

Null == <<>>

Truthy(v) == v # Null

\* a File: <<name, type, base64 of the content, readable>>
Files ==
    { <<"photo.png", "image/png", <<"iVBOR">>, TRUE>>,
      <<"empty.jpg", "image/jpeg", <<>>, TRUE>>,
      <<"broken.webp", "image/webp", <<"UklGR">>, FALSE>> }

FileType(f) == f[2]
FileContent(f) == f[3]
FileReadable(f) == f[4]

STYLES == { <<"Watercolor">>, <<"Anime style">> }

\* values the textarea can hold: any text, the empty text included
PromptTexts == STYLES \cup { <<>> }

Payloads == { "X", "Y" }

TextPart(t) == [inlineData |-> Null, text |-> <<t>>]
ImagePart(d) == [inlineData |-> <<d>>, text |-> Null]

Parts == { TextPart("Sorry, I cannot do that.") } \cup { ImagePart(d) : d \in Payloads }

PartSeqs == UNION { [1..n -> Parts] : n \in 0..MaxParts }

\* what the backend request settles with: a response or an exception
Outcomes ==
    { [throws |-> FALSE, diagnostic |-> Null, parts |-> ps] : ps \in PartSeqs }
    \cup
    { [throws |-> TRUE, diagnostic |-> <<d>>, parts |-> <<>>] :
          d \in { "fetch failed", "429 quota exceeded" } }

GuidanceMessage == <<"Please upload an image and select a style or enter a prompt.">>
UnknownErrorMessage == <<"An unknown error occurred.">>
ApiKeyMessage == <<"API_KEY environment variable not set. Please ensure it's configured.">>
Base64Message == <<"Failed to convert file to base64. The file might be empty or corrupt.">>
NoImageMessage == <<"No image data found in the API response. The prompt may have been blocked or the model could not generate an image.">>
GenericMessage == <<"Failed to generate image. Please check your prompt or try a different image.">>

DownloadName == <<"gemini-styled-image.png">>

(* ------------------------- generation client --------------------------- *)

\* the credential check at the head of editImageWithPrompt: without the
\* credential the call is rejected before anything is read or sent
editImageWithPromptNoKeyCheck == "encoding"

editImageWithPrompt == IF ~apiKey THEN "rejected" ELSE "encoding"

\* reader.result of readAsDataURL, cut at the commas by split(',')
ReadAsDataURLSplit(f) ==
    IF FileContent(f) = <<>>
    THEN << <<"data:", FileType(f), ";base64">>, <<>> >>
    ELSE << <<"data:", FileType(f), ";base64">>, FileContent(f) >>

\* fileToBase64: [ok, value]; a rejection carries the rejected value's
\* .message (Null for the ProgressEvent of reader.onerror)
fileToBase64(f) ==
    IF ~FileReadable(f)
    THEN [ok |-> FALSE, value |-> Null]
    ELSE LET base64Data == ReadAsDataURLSplit(f)[2]
         IN  IF Truthy(base64Data)
             THEN [ok |-> TRUE, value |-> base64Data]
             ELSE [ok |-> FALSE, value |-> Base64Message]

\* the request of generateContent: <<inlineData.data, inlineData.mimeType, text>>
Request(base64Data, f, p) ==
    << base64Data, FileType(f), <<"Apply the following edit to the image: ">> \o p >>


\* the loop over the parts without its return: the last image part wins
RECURSIVE LastInlineData(_)
LastInlineData(ps) ==
    IF ps = <<>> THEN Null
    ELSE IF Truthy(LastInlineData(Tail(ps))) THEN LastInlineData(Tail(ps))
    ELSE Head(ps).inlineData

\* the for loop over the response's parts
RECURSIVE FirstInlineData(_)
FirstInlineData(ps) ==
    IF ps = <<>> THEN Null
    ELSE IF Truthy(Head(ps).inlineData) THEN Head(ps).inlineData
    ELSE FirstInlineData(Tail(ps))


\* the try/catch around the request with a catch that rethrows what it caught
ExtractRethrows(outcome) ==
    LET found == IF outcome.throws THEN Null ELSE FirstInlineData(outcome.parts)
        thrown == IF outcome.throws THEN outcome.diagnostic
                  ELSE IF found = Null THEN NoImageMessage ELSE Null
    IN  IF thrown # Null
        THEN [ok |-> FALSE, value |-> thrown]
        ELSE [ok |-> TRUE, value |-> found]

\* the try/catch of editImageWithPrompt around the request: the throw of
\* the no-image error is inside the try block and is caught with the rest
Extract(outcome) ==
    LET found == IF outcome.throws THEN Null ELSE FirstInlineData(outcome.parts)
        thrown == IF outcome.throws THEN outcome.diagnostic
                  ELSE IF found = Null THEN NoImageMessage ELSE Null
    IN  IF thrown # Null
        THEN [ok |-> FALSE, value |-> GenericMessage]
        ELSE [ok |-> TRUE, value |-> found]

(* ----------------------------- the view -------------------------------- *)

\* the output panel with the error branch tested before the loading branch
OutputPanelErrorFirst ==
    IF Truthy(error) THEN "ErrorDisplay"
    ELSE IF isLoading THEN "Loader"
    ELSE IF Truthy(editedImageUrl) THEN "ImagePreview"
    ELSE "OutputPlaceholder"

\* the output panel
OutputPanel ==
    IF isLoading THEN "Loader"
    ELSE IF Truthy(error) THEN "ErrorDisplay"
    ELSE IF Truthy(editedImageUrl) THEN "ImagePreview"
    ELSE "OutputPlaceholder"

LifecycleState ==
    CASE OutputPanel = "Loader" -> "Loading"
      [] OutputPanel = "ErrorDisplay" -> "Failed"
      [] OutputPanel = "ImagePreview" -> "Succeeded"
      [] OTHER -> "Idle"


\* the disabled attribute without its isLoading term
GenerateDisabledIgnoresLoading == ~Truthy(originalImageFile) \/ ~Truthy(prompt)

\* the disabled attribute of the Generate button
GenerateDisabled == isLoading \/ ~Truthy(originalImageFile) \/ ~Truthy(prompt)

(* --------------------------- the controller ---------------------------- *)

Init ==
    /\ originalImageFile = Null
    /\ originalImageUrl = Null
    /\ editedImageUrl = Null
    /\ prompt = <<>>
    /\ isLoading = FALSE
    /\ error = Null
    /\ apiKey \in BOOLEAN
    /\ calls = <<>>
    /\ nextCall = 1
    /\ objectUrls = {}
    /\ requestCount = 0
    /\ downloads = <<>>

\* a continuation of a call rejected before its first suspension runs as a
\* microtask, before any other event is handled
MicrotaskPending == \E c \in DOMAIN calls : calls[c].phase = "rejected"

Remove(c) == [d \in DOMAIN calls \ {c} |-> calls[d]]

\* handleImageUpload without its setError(null)
handleImageUploadKeepsError(file) ==
    /\ ~MicrotaskPending
    /\ Truthy(file)
    /\ Cardinality(objectUrls) < MaxUploads
    /\ LET url == <<"blob:", Cardinality(objectUrls) + 1>>
       IN  /\ originalImageFile' = file
           /\ originalImageUrl' = url
           /\ objectUrls' = objectUrls \cup {url}
    /\ editedImageUrl' = Null
    /\ UNCHANGED <<prompt, isLoading, error, apiKey, calls, nextCall, requestCount,
                   downloads>>

handleImageUpload(file) ==
    /\ ~MicrotaskPending
    /\ Truthy(file)
    /\ Cardinality(objectUrls) < MaxUploads
    /\ LET url == <<"blob:", Cardinality(objectUrls) + 1>>
       IN  /\ originalImageFile' = file
           /\ originalImageUrl' = url
           /\ objectUrls' = objectUrls \cup {url}
    /\ editedImageUrl' = Null
    /\ error' = Null
    /\ UNCHANGED <<prompt, isLoading, apiKey, calls, nextCall, requestCount, downloads>>


\* handleStyleClick also dismissing a displayed error
handleStyleClickClearsError(style) ==
    /\ ~MicrotaskPending
    /\ prompt' = style
    /\ error' = Null
    /\ UNCHANGED <<originalImageFile, originalImageUrl, editedImageUrl, isLoading,
                   apiKey, calls, nextCall, objectUrls, requestCount, downloads>>

handleStyleClick(style) ==
    /\ ~MicrotaskPending
    /\ prompt' = style
    /\ UNCHANGED <<originalImageFile, originalImageUrl, editedImageUrl, isLoading,
                   error, apiKey, calls, nextCall, objectUrls, requestCount, downloads>>

\* onChange of the textarea
promptChange(value) ==
    /\ ~MicrotaskPending
    /\ prompt' = value
    /\ UNCHANGED <<originalImageFile, originalImageUrl, editedImageUrl, isLoading,
                   error, apiKey, calls, nextCall, objectUrls, requestCount, downloads>>

\* handleGenerate without its setEditedImageUrl(null)
handleGenerateKeepsResult ==
    /\ ~MicrotaskPending
    /\ IF ~Truthy(originalImageFile) \/ ~Truthy(prompt)
       THEN /\ error' = GuidanceMessage
            /\ UNCHANGED <<editedImageUrl, isLoading, calls, nextCall>>
       ELSE /\ nextCall <= MaxCalls
            /\ isLoading' = TRUE
            /\ error' = Null
            /\ calls' = (nextCall :> [file |-> originalImageFile,
                                       prompt |-> prompt,
                                       phase |-> editImageWithPrompt,
                                       request |-> Null]) @@ calls
            /\ nextCall' = nextCall + 1
            /\ UNCHANGED editedImageUrl
    /\ UNCHANGED <<originalImageFile, originalImageUrl, prompt, apiKey, objectUrls,
                   requestCount, downloads>>

\* handleGenerate up to its first suspension
handleGenerate ==
    /\ ~MicrotaskPending
    /\ IF ~Truthy(originalImageFile) \/ ~Truthy(prompt)
       THEN /\ error' = GuidanceMessage
            /\ UNCHANGED <<editedImageUrl, isLoading, calls, nextCall>>
       ELSE /\ nextCall <= MaxCalls
            /\ isLoading' = TRUE
            /\ error' = Null
            /\ editedImageUrl' = Null
            /\ calls' = (nextCall :> [file |-> originalImageFile,
                                       prompt |-> prompt,
                                       phase |-> editImageWithPrompt,
                                       request |-> Null]) @@ calls
            /\ nextCall' = nextCall + 1
    /\ UNCHANGED <<originalImageFile, originalImageUrl, prompt, apiKey, objectUrls,
                   requestCount, downloads>>


\* the catch block of handleGenerate without the finally block
FailWithoutFinally(c, message) ==
    /\ error' = (IF Truthy(message) THEN message ELSE UnknownErrorMessage)
    /\ calls' = Remove(c)
    /\ UNCHANGED <<editedImageUrl, isLoading>>

\* the catch and finally blocks of handleGenerate
Fail(c, message) ==
    /\ error' = (IF Truthy(message) THEN message ELSE UnknownErrorMessage)
    /\ isLoading' = FALSE
    /\ calls' = Remove(c)
    /\ UNCHANGED editedImageUrl


\* the try block of handleGenerate with isLoading cleared in the catch only
SucceedKeepsLoading(c, base64Data) ==
    /\ editedImageUrl' = <<"data:image/png;base64,">> \o base64Data
    /\ calls' = Remove(c)
    /\ UNCHANGED <<error, isLoading>>

\* the rest of the try block and the finally block of handleGenerate
Succeed(c, base64Data) ==
    /\ editedImageUrl' = <<"data:image/png;base64,">> \o base64Data
    /\ isLoading' = FALSE
    /\ calls' = Remove(c)
    /\ UNCHANGED error

\* the missing-credential throw of editImageWithPrompt reaches handleGenerate
apiKeyRejected(c) ==
    /\ c \in DOMAIN calls
    /\ calls[c].phase = "rejected"
    /\ Fail(c, ApiKeyMessage)
    /\ UNCHANGED <<originalImageFile, originalImageUrl, prompt, apiKey, nextCall,
                   objectUrls, requestCount, downloads>>



\* the client reading the image and the prompt current when the encoding
\* ends instead of its arguments
encodedReadsCurrent(c) ==
    /\ ~MicrotaskPending
    /\ c \in DOMAIN calls
    /\ calls[c].phase = "encoding"
    /\ LET r == fileToBase64(originalImageFile)
       IN  IF r.ok
           THEN /\ calls' = [calls EXCEPT ![c].phase = "requesting",
                                          ![c].request = Request(r.value, originalImageFile,
                                                                 prompt)]
                /\ requestCount' = requestCount + 1
                /\ UNCHANGED <<editedImageUrl, isLoading, error>>
           ELSE /\ Fail(c, r.value)
                /\ UNCHANGED requestCount
    /\ UNCHANGED <<originalImageFile, originalImageUrl, prompt, apiKey, nextCall,
                   objectUrls, downloads>>

\* the request issued a second time after the first
encodedRequestsTwice(c) ==
    /\ ~MicrotaskPending
    /\ c \in DOMAIN calls
    /\ calls[c].phase = "encoding"
    /\ LET r == fileToBase64(calls[c].file)
       IN  IF r.ok
           THEN /\ calls' = [calls EXCEPT ![c].phase = "requesting",
                                          ![c].request = Request(r.value, calls[c].file,
                                                                 calls[c].prompt)]
                /\ requestCount' = requestCount + 2
                /\ UNCHANGED <<editedImageUrl, isLoading, error>>
           ELSE /\ Fail(c, r.value)
                /\ UNCHANGED requestCount
    /\ UNCHANGED <<originalImageFile, originalImageUrl, prompt, apiKey, nextCall,
                   objectUrls, downloads>>

\* fileToBase64 settles; on success the backend request is issued
encoded(c) ==
    /\ ~MicrotaskPending
    /\ c \in DOMAIN calls
    /\ calls[c].phase = "encoding"
    /\ LET r == fileToBase64(calls[c].file)
       IN  IF r.ok
           THEN /\ calls' = [calls EXCEPT ![c].phase = "requesting",
                                          ![c].request = Request(r.value, calls[c].file,
                                                                 calls[c].prompt)]
                /\ requestCount' = requestCount + 1
                /\ UNCHANGED <<editedImageUrl, isLoading, error>>
           ELSE /\ Fail(c, r.value)
                /\ UNCHANGED requestCount
    /\ UNCHANGED <<originalImageFile, originalImageUrl, prompt, apiKey, nextCall,
                   objectUrls, downloads>>

\* the backend request settles
settled(c, outcome) ==
    /\ ~MicrotaskPending
    /\ c \in DOMAIN calls
    /\ calls[c].phase = "requesting"
    /\ LET r == Extract(outcome)
       IN  IF r.ok THEN Succeed(c, r.value) ELSE Fail(c, r.value)
    /\ UNCHANGED <<originalImageFile, originalImageUrl, prompt, apiKey, nextCall,
                   objectUrls, requestCount, downloads>>

handleDownload ==
    /\ ~MicrotaskPending
    /\ Truthy(editedImageUrl)
    /\ Len(downloads) < MaxDownloads
    /\ downloads' = Append(downloads, <<editedImageUrl, DownloadName>>)
    /\ UNCHANGED <<originalImageFile, originalImageUrl, editedImageUrl, prompt,
                   isLoading, error, apiKey, calls, nextCall, objectUrls, requestCount>>

Next ==
    \/ \E file \in Files : handleImageUpload(file)
    \/ \E style \in STYLES : handleStyleClick(style)
    \/ \E value \in PromptTexts : promptChange(value)
    \/ handleGenerate
    \/ \E c \in 1..MaxCalls : apiKeyRejected(c)
    \/ \E c \in 1..MaxCalls : encoded(c)
    \/ \E c \in 1..MaxCalls, outcome \in Outcomes : settled(c, outcome)
    \/ handleDownload

Spec == Init /\ [][Next]_vars

(* The same handlers as the rendered page lets the user trigger them: the   *)
(* Generate button is disabled by its disabled attribute, and the download  *)
(* button exists only in the result branch of the output panel.             *)

clickGenerate == ~GenerateDisabled /\ handleGenerate

clickDownload == OutputPanel = "ImagePreview" /\ handleDownload

NextUI ==
    \/ \E file \in Files : handleImageUpload(file)
    \/ \E style \in STYLES : handleStyleClick(style)
    \/ \E value \in PromptTexts : promptChange(value)
    \/ clickGenerate
    \/ \E c \in 1..MaxCalls : apiKeyRejected(c)
    \/ \E c \in 1..MaxCalls : encoded(c)
    \/ \E c \in 1..MaxCalls, outcome \in Outcomes : settled(c, outcome)
    \/ clickDownload

SpecUI == Init /\ [][NextUI]_vars


\* a pending promise of a call settles: the file reader's or the backend's
Completion ==
    \E c \in 1..MaxCalls :
        \/ apiKeyRejected(c)
        \/ encoded(c)
        \/ \E outcome \in Outcomes : settled(c, outcome)

\* the page under the assumption that every pending promise settles
SpecUIFair == SpecUI /\ WF_vars(Completion)

(* ------------------------------ properties ----------------------------- *)

\* the most recently initiated call
Latest == nextCall - 1

PreconditionViolated == ~Truthy(originalImageFile) \/ ~Truthy(prompt)

\* a step in which call c settles and returns to handleGenerate
Completes(c) ==
    \/ apiKeyRejected(c)
    \/ encoded(c) /\ c \notin DOMAIN calls'
    \/ \E outcome \in Outcomes : settled(c, outcome)

\* C1: handleGenerate invoked with no image or with an empty prompt starts
\* no client call, issues no backend request, and leaves the controller in
\* Failed with the guidance message, from every state.
C1_InvalidGenerateFails ==
    [][(handleGenerate /\ PreconditionViolated)
         => /\ UNCHANGED <<calls, nextCall, requestCount>>
            /\ error' = GuidanceMessage
            /\ LifecycleState' = "Failed"]_vars

\* C2: the outcome of a call that is no longer the most recently initiated
\* one is discarded when it arrives: it changes neither the result image
\* nor the error message.
C2_SupersededOutcomeDiscarded ==
    [][\A c \in 1..MaxCalls :
          (Completes(c) /\ c # Latest) => UNCHANGED <<editedImageUrl, error>>]_vars

\* C3: a backend response without any inline image data ends the call in
\* Failed with the no-image-data message.
C3_NoImageMessageShown ==
    [][\A c \in 1..MaxCalls, outcome \in Outcomes :
          (settled(c, outcome) /\ ~outcome.throws /\ FirstInlineData(outcome.parts) = Null)
            => /\ LifecycleState' = "Failed"
               /\ error' = NoImageMessage]_vars

\* C4: without the credential no backend request is ever issued and no file
\* is ever read, and every call of handleGenerate with an image and a prompt
\* ends in Failed with the configuration message, whatever the image.
C4_NoCredentialNoRequest ==
    [][~apiKey =>
          /\ requestCount' = 0
          /\ \A c \in DOMAIN calls' : /\ calls'[c].phase = "rejected"
                                      /\ calls'[c].request = Null
          /\ \A c \in DOMAIN calls :
                /\ c \notin DOMAIN calls'
                /\ LifecycleState' = "Failed"
                /\ error' = ApiKeyMessage]_vars

\* a call for an unreadable image has failed on the missing credential
C4_Witness ==
    /\ ~apiKey
    /\ Truthy(originalImageFile)
    /\ ~FileReadable(originalImageFile)
    /\ nextCall > 1
    /\ calls = <<>>
    /\ LifecycleState = "Failed"
    /\ error = ApiKeyMessage
    /\ requestCount = 0

\* C5: selecting an image while a result or an error is displayed clears
\* both, makes the file the selected image and leaves the controller Idle.
C5_SelectClearsResult ==
    [][\A file \in Files :
          (handleImageUpload(file) /\ LifecycleState \in {"Succeeded", "Failed"})
            => /\ originalImageFile' = file
               /\ editedImageUrl' = Null
               /\ error' = Null
               /\ LifecycleState' = "Idle"]_vars

\* a second image was selected after a call had completed: Idle with no
\* call pending is reached again only through handleImageUpload
C5_Witness ==
    /\ nextCall > 1
    /\ calls = <<>>
    /\ Cardinality(objectUrls) = 2
    /\ LifecycleState = "Idle"

\* C6: selecting an image leaves the controller Idle with no result and no
\* error from every state, a pending call included.
C6_SelectAlwaysIdle ==
    [][\A file \in Files :
          handleImageUpload(file)
            => /\ editedImageUrl' = Null
               /\ error' = Null
               /\ LifecycleState' = "Idle"]_vars

\* C7: handleGenerate with an image and a non-empty prompt sets Loading and
\* clears result and error in the step of the trigger, in which the new call
\* has not yet issued its backend request.
C7_GenerateSetsLoading ==
    [][(handleGenerate /\ ~PreconditionViolated)
         => /\ isLoading'
            /\ LifecycleState' = "Loading"
            /\ editedImageUrl' = Null
            /\ error' = Null
            /\ nextCall \in DOMAIN calls'
            /\ calls'[nextCall].phase \in {"encoding", "rejected"}
            /\ calls'[nextCall].request = Null
            /\ requestCount' = requestCount]_vars

\* a second call has just been triggered after the first one completed
C7_Witness ==
    /\ nextCall = 3
    /\ DOMAIN calls = {2}
    /\ calls[2].phase = "encoding"
    /\ calls[2].request = Null
    /\ isLoading
    /\ editedImageUrl = Null
    /\ error = Null

\* C8: while isLoading is set the output panel shows neither the result
\* image nor an error message, and whenever it shows one of them isLoading
\* is not set.
C8_LoadingShowsNoResult ==
    /\ isLoading => OutputPanel \notin {"ImagePreview", "ErrorDisplay"}
    /\ OutputPanel \in {"ImagePreview", "ErrorDisplay"} => ~isLoading

\* an error message is stored while a call is loading, and is not shown
C8_Witness ==
    /\ isLoading
    /\ Truthy(error)
    /\ OutputPanel = "Loader"

\* C9: a stored result image and a stored error message never coexist.
C9_ResultOrErrorNotBoth == ~(Truthy(editedImageUrl) /\ Truthy(error))

\* C10: handleDownload exports nothing unless the controller is in
\* Succeeded.
C10_DownloadOnlyWhenSucceeded ==
    [][(handleDownload /\ LifecycleState # "Succeeded") => downloads' = downloads]_vars

\* the index of the first part of a response that carries inline image data
FirstImageIndex(ps) ==
    CHOOSE i \in 1..Len(ps) :
        /\ Truthy(ps[i].inlineData)
        /\ \A j \in 1..(i - 1) : ~Truthy(ps[j].inlineData)

HasImage(outcome) ==
    ~outcome.throws /\ \E i \in 1..Len(outcome.parts) : Truthy(outcome.parts[i].inlineData)

\* the outcomes whose first image-bearing part carries payload b
FirstImageOutcomes ==
    [b \in Payloads |->
        { outcome \in Outcomes :
            /\ HasImage(outcome)
            /\ outcome.parts[FirstImageIndex(outcome.parts)].inlineData = <<b>> }]

\* a response of full length that starts with the image part of b and goes
\* on with image parts of another payload
LaterImagesOutcome ==
    [b \in Payloads |->
        [throws |-> FALSE, diagnostic |-> Null,
         parts |-> <<ImagePart(b)>>
                     \o [i \in 1..(MaxParts - 1) |->
                            ImagePart(CHOOSE d \in Payloads : d # b)]]]

\* the outcomes without image data: exceptions and responses without image
FailingOutcomes == { outcome \in Outcomes : ~HasImage(outcome) }

ThrowingOutcomes == { outcome \in Outcomes : outcome.throws }

\* a step in which call c returns to handleGenerate and is over
Returns(c) == c \in DOMAIN calls /\ c \notin DOMAIN calls'

\* a step in which the backend request of call c settles
RequestSettles(c) == Returns(c) /\ calls[c].phase = "requesting"

\* C11: for every response whose first image-bearing part carries payload B
\* the client returns exactly B, whatever the later parts are; a step in which
\* such a response settles a call stores the data URL of exactly B (settled
\* uses the response only through Extract, so the step is taken with the
\* response that has other images after the first); and handleDownload
\* exports exactly the stored result under the fixed name.
C11_RoundTrip ==
    /\ \A b \in Payloads : \A outcome \in FirstImageOutcomes[b] :
          Extract(outcome) = [ok |-> TRUE, value |-> <<b>>]
    /\ [][/\ \A c \in 1..MaxCalls : \A b \in Payloads :
               (RequestSettles(c) /\ settled(c, LaterImagesOutcome[b]))
                 => editedImageUrl' = <<"data:image/png;base64,", b>>
          /\ handleDownload
               => /\ downloads' = Append(downloads, <<editedImageUrl, DownloadName>>)
                  /\ editedImageUrl' = editedImageUrl]_vars

\* the result carrying payload Y is displayed and has been exported
C11_Witness ==
    /\ OutputPanel = "ImagePreview"
    /\ editedImageUrl = <<"data:image/png;base64,", "Y">>
    /\ downloads = << <<editedImageUrl, DownloadName>> >>

\* a step in which call c fails: on the missing credential, at the encoding
\* of the image, on a response without image data, or on an exception of
\* the backend request
Fails(c) ==
    \/ apiKeyRejected(c)
    \/ encoded(c) /\ c \notin DOMAIN calls'
    \/ \E outcome \in FailingOutcomes : settled(c, outcome)

\* C12: every failure of the generation client leaves the controller in
\* Failed: isLoading is false, the failing call stores no result image, and
\* the panel shows a non-empty error message and no result image.
C12_EveryFailureFails ==
    [][\A c \in 1..MaxCalls :
          (Returns(c) /\ Fails(c))
                   => /\ LifecycleState' = "Failed"
                      /\ ~isLoading'
                      /\ editedImageUrl' = editedImageUrl
                      /\ OutputPanel' = "ErrorDisplay"
                      /\ Truthy(error')
                      /\ error' \in {ApiKeyMessage, Base64Message, UnknownErrorMessage,
                                     GenericMessage}]_vars

\* the call for an unreadable image has failed at the encoding
C12_Witness ==
    /\ apiKey
    /\ calls = <<>>
    /\ LifecycleState = "Failed"
    /\ error = UnknownErrorMessage

\* C13: an exception of the backend request is shown as the one generic
\* message, whatever the exception, and the message shown holds nothing of
\* the exception's diagnostic.
C13_TransportErrorGeneric ==
    [][\A c \in 1..MaxCalls, outcome \in ThrowingOutcomes :
          (RequestSettles(c) /\ settled(c, outcome))
            => /\ error' = GenericMessage
               /\ \A i \in 1..Len(error'), j \in 1..Len(outcome.diagnostic) :
                     error'[i] # outcome.diagnostic[j]
               /\ LifecycleState' = "Failed"]_vars

\* a request has been issued and its call has ended with the generic message
C13_Witness ==
    /\ requestCount > 0
    /\ calls = <<>>
    /\ OutputPanel = "ErrorDisplay"
    /\ error = GenericMessage

\* C14: the only live preview object URL is the current one: the URL of a
\* replaced image has been released.
C14_PreviousPreviewReleased == objectUrls \subseteq {originalImageUrl}

\* a step in which call c issues its backend request
Issues(c) ==
    /\ c \in DOMAIN calls /\ calls[c].request = Null
    /\ c \in DOMAIN calls' /\ calls'[c].request # Null

\* C15: a call issues one backend request when the credential is present
\* and its image encodes, and none otherwise; the trigger itself issues
\* none; a request once issued is not issued again, and a call whose
\* request has settled, with a failure or not, is over.
C15_OneRequestPerCall ==
    [][/\ \A c \in 1..MaxCalls :
            /\ Issues(c) => requestCount' = requestCount + 1
            /\ (c \in DOMAIN calls /\ calls[c].request # Null /\ c \in DOMAIN calls')
                 => calls'[c].request = calls[c].request
            /\ (encoded(c) /\ apiKey /\ FileReadable(calls[c].file)
                  /\ FileContent(calls[c].file) # <<>>) => Issues(c)
            /\ (c \in DOMAIN calls /\ calls[c].phase = "requesting"
                  /\ (c \notin DOMAIN calls' \/ calls'[c] # calls[c]))
                 => (requestCount' = requestCount /\ c \notin DOMAIN calls')
       /\ requestCount' # requestCount => \E c \in 1..MaxCalls : Issues(c)
       /\ handleGenerate => requestCount' = requestCount
       /\ requestCount' <= nextCall' - 1]_vars

\* two calls have each issued their request, and the second has failed
C15_Witness ==
    /\ nextCall = 3
    /\ requestCount = 2
    /\ calls = <<>>
    /\ error = GenericMessage

\* C16: through the Generate button at most one call is in flight: while a
\* call is pending isLoading is set and the button is disabled, also after
\* the image or the prompt were changed during the call.
C16_OneCallInFlight ==
    /\ Cardinality(DOMAIN calls) <= 1
    /\ calls # <<>> => (isLoading /\ GenerateDisabled)

\* a call is pending, image and prompt have been replaced by other valid
\* ones meanwhile, and the button is disabled
C16_Witness ==
    /\ \E c \in DOMAIN calls : /\ calls[c].file # originalImageFile
                               /\ calls[c].prompt # prompt
    /\ Truthy(originalImageFile)
    /\ Truthy(prompt)
    /\ LifecycleState = "Loading"
    /\ GenerateDisabled

\* C17: a call carries the image and the prompt current at its trigger, no
\* later step changes them, and the request it issues is built from them:
\* the image's encoded content, its media type and the instruction text.
C17_RequestIsSnapshot ==
    [][/\ (handleGenerate /\ ~PreconditionViolated)
            => /\ calls'[nextCall].file = originalImageFile
               /\ calls'[nextCall].prompt = prompt
       /\ \A c \in 1..MaxCalls :
            /\ (c \in DOMAIN calls /\ c \in DOMAIN calls')
                 => /\ calls'[c].file = calls[c].file
                    /\ calls'[c].prompt = calls[c].prompt
            /\ Issues(c)
                 => calls'[c].request =
                      << FileContent(calls[c].file), FileType(calls[c].file),
                         <<"Apply the following edit to the image: ">> \o calls[c].prompt >>]_vars

\* a request is in flight for an image and a prompt that have both been
\* replaced since the trigger
C17_Witness ==
    \E c \in DOMAIN calls :
        /\ calls[c].phase = "requesting"
        /\ calls[c].file # originalImageFile
        /\ calls[c].prompt # prompt
        /\ calls[c].request[2] = FileType(calls[c].file)
        /\ calls[c].request[3] = <<"Apply the following edit to the image: ">> \o calls[c].prompt

\* C18: the controller starts Idle; a step from a state that is not Idle to
\* Idle is a step of handleImageUpload; a step in which a call returns to
\* handleGenerate ends in Succeeded or Failed.
C18_IdleOnlyBySelectImage ==
    /\ LifecycleState = "Idle"
    /\ [][/\ (LifecycleState # "Idle" /\ LifecycleState' = "Idle")
               => \E file \in Files : handleImageUpload(file)
          /\ \A c \in 1..MaxCalls :
               Returns(c) => LifecycleState' \in {"Succeeded", "Failed"}]_vars

\* Idle again after two completed calls
C18_Witness ==
    /\ nextCall = 3
    /\ calls = <<>>
    /\ Truthy(originalImageFile)
    /\ LifecycleState = "Idle"

\* C19: a result image that comes to be displayed was generated from the
\* image selected at that moment, and selecting another image removes the
\* result of the previous one.
C19_ResultOfCurrentImage ==
    [][/\ \A c \in 1..MaxCalls, outcome \in Outcomes :
            (settled(c, outcome) /\ LifecycleState' = "Succeeded")
              => calls[c].file = originalImageFile'
       /\ \A file \in Files :
            handleImageUpload(file) => editedImageUrl' = Null]_vars

\* C20: isLoading is set exactly while a call is pending, and, every
\* pending promise settling, a controller that is loading stops loading.
C20_LoadingWhilePending ==
    /\ [](isLoading <=> calls # <<>>)
    /\ isLoading ~> ~isLoading

\* two calls have entered and left Loading, the second with a result
C20_Witness ==
    /\ nextCall = 3
    /\ calls = <<>>
    /\ ~isLoading
    /\ OutputPanel = "ImagePreview"

=============================================================================
